---- MODULE Spec2Model ----
(***************************************************************************)
(* A model of the news retrieval pipeline of AI_Newschatbot:               *)
(*   src/utils.py   _google_news_url, fetch_google_news (st.cache_data,    *)
(*                  ttl=300), fetch_news, extract_keywords,                *)
(*                  buzz_meter_value, _init_vader,                         *)
(*                  analyze_sentiment_batch, get_daily_streak,             *)
(*                  increment_daily_streak                                 *)
(*   src/AI_News.py main (the caller that renders the outcome)             *)
(*                                                                         *)
(* Specifications:                                                         *)
(*   Spec       the cached fetch-and-parse pipeline driven by the UI       *)
(*   SpecParse  the parse phase of one uncached call, over larger feeds    *)
(*   SpecBuzz   buzz_meter_value over article counts                       *)
(*   SpecUrl    _google_news_url over queries and lookback values          *)
(*   SpecKw     extract_keywords (no-vectorizer strategy) over texts       *)
(*   SpecSent   analyze_sentiment_batch over texts and library states      *)
(*   SpecStreak increment_daily_streak over runs of calendar days          *)
(*   SpecConc   sessions calling the cached fetch concurrently             *)
(***************************************************************************)
EXTENDS Integers, Sequences, FiniteSets, TLC

VARIABLES
    clock,          \* wall clock, seconds
    cache,          \* st.cache_data store: set of [key, val, at]
    pc,             \* position of the (single) UI run
    key,            \* arguments of the current fetch_google_news call
    attempt,        \* loop variable of "for attempt in range(3)"
    last_err,       \* last_err
    xml_text,       \* body of the successful response
    item,           \* index of the next item of root.findall(".//item")
    articles,       \* articles (the list being built)
    result,         \* the (articles, error) pair returned to the caller
    shown,          \* messages the UI run has displayed
    \* history of the current call
    gets,           \* HTTP GETs issued by the current call
    errlog,         \* failure descriptions of the current call, in order
    slept,          \* time.sleep arguments of the current call, in half seconds
    xmlFailed,      \* the XML strategy raised
    fallbackRan,    \* the feedparser strategy was entered
    fallbackFailed, \* the feedparser strategy raised
    callAt,         \* clock at the call
    prev,           \* what earlier computations had left for this key, at the call
    computed,       \* last completed fetch-and-parse per key: set of [key, val, at]
    \* the pure functions
    bm_articles, bm_val,
    url_query, url_days, url_out,
    kw_texts, kw_top_k, kw_out,
    sa_env,         \* the sentiment library: "ok", "missing" or "initfails"
    sa_texts,       \* the texts handed to analyze_sentiment_batch
    sa_out,         \* its results
    sk_days,        \* the calendar dates so far, the last one is today
    sk_file,        \* data/streak.json
    sk_called,      \* history: the days (indices of sk_days) with a call
    sk_callsToday,  \* history: calls of increment_daily_streak made today
    \* sessions calling the cached function concurrently
    cpc,            \* position of each session
    ckey,           \* arguments of each session's call
    locks,          \* keys whose compute lock is held
    creturns,       \* history: what the calls returned since TTL ago
    cstores         \* history: what was stored since TTL ago

fetchVars == <<clock, cache, pc, key, attempt, last_err, xml_text, item, articles,
               result, shown>>
histVars  == <<gets, errlog, slept, xmlFailed, fallbackRan, fallbackFailed, callAt,
               prev, computed>>
buzzVars  == <<bm_articles, bm_val>>
urlVars   == <<url_query, url_days, url_out>>
kwVars    == <<kw_texts, kw_top_k, kw_out>>
sentVars  == <<sa_env, sa_texts, sa_out>>
streakVars == <<sk_days, sk_file, sk_called, sk_callsToday>>
concVars  == <<cpc, ckey, locks, creturns, cstores>>
pureVars  == <<buzzVars, urlVars, kwVars, sentVars, streakVars>>
vars      == <<fetchVars, histVars, pureVars, concVars>>

(***************************************************************************)
(* Bounds                                                                  *)
(***************************************************************************)
MaxItems == 3          \* items of a feed body in SpecParse
MaxArticles == 2       \* max_articles values in SpecParse: -1..MaxArticles
MaxClock == 300        \* the clock stops here
TickLen == 150         \* seconds per clock advance

Max(a, b) == IF a >= b THEN a ELSE b
Min(a, b) == IF a <= b THEN a ELSE b

(***************************************************************************)
(* Feed bodies.  A body is the response text: whether it is well-formed    *)
(* XML, and its item entries in document order, each with its raw title    *)
(* and link text.  Entry i of a feed, when it has a title or a link, has   *)
(* its own: TitleNames[i], LinkNames[i].                                   *)
(***************************************************************************)
TitleNames == <<"t1", "t2", "t3", "t4", "t5">>
LinkNames  == <<"l1", "l2", "l3", "l4", "l5">>

EntriesAt(i) == [title : {"", " ", TitleNames[i]}, link : {"", LinkNames[i]}]

RECURSIVE EntrySeqs(_)
EntrySeqs(n) ==
    IF n = 0 THEN {<<>>}
    ELSE {Append(s, e) : s \in EntrySeqs(n - 1), e \in EntriesAt(n)}

Bodies(n) == [wf : BOOLEAN, entries : UNION {EntrySeqs(k) : k \in 0..n}]

\* str.strip() on the field texts above
Strip(s) == IF s = " " THEN "" ELSE s

Errs == {"e1", "e2"}       \* descriptions of a failed GET
NoErr == [kind |-> "none", cause |-> ""]
HttpError(e) == [kind |-> "http", cause |-> e]
ParseError == [kind |-> "parse", cause |-> "e2"]
EmptyFeedError == [kind |-> "empty", cause |-> ""]

NoBody == [wf |-> FALSE, entries |-> <<>>]
NoResult == [articles |-> <<>>, err |-> NoErr]

Args(q, d, m) == [query |-> q, days_back |-> d, max_articles |-> m,
                  region |-> "US", lang |-> "en"]
\* the feeds the server serves in Spec (SpecParse covers every body up to
\* MaxItems): empty, one valid item, one item without a link, and malformed
\* documents that feedparser still reads
Item1 == [title |-> "t1", link |-> "l1"]
ServedBodies ==
    { [wf |-> TRUE,  entries |-> <<>>],
      [wf |-> TRUE,  entries |-> <<Item1>>],
      [wf |-> TRUE,  entries |-> <<[title |-> "t1", link |-> ""]>>],
      [wf |-> FALSE, entries |-> <<Item1>>],
      [wf |-> FALSE, entries |-> <<[title |-> " ", link |-> "l1"]>>] }

\* what the UI asks for in Spec
CallArgs == {Args("AI", 7, 1), Args("AI", 7, 2)}

(***************************************************************************)
(* st.cache_data(ttl=300)                                                  *)
(***************************************************************************)
TTL == 300

CacheEntries(c, k) == {e \in c : e.key = k}

\* an entry that is still served at the instant it expires
CacheFreshInclusive(c, k, now) == \E e \in CacheEntries(c, k) : now - e.at <= TTL

CacheFresh(c, k, now) == \E e \in CacheEntries(c, k) : now - e.at < TTL

CacheValue(c, k) == (CHOOSE e \in CacheEntries(c, k) : TRUE).val

CacheStore(c, k, v, now) ==
    (c \ CacheEntries(c, k)) \cup {[key |-> k, val |-> v, at |-> now]}

(***************************************************************************)
(* fetch_google_news                                                       *)
(***************************************************************************)
\* a retry loop of one attempt too many
HttpAttemptsFour == 3 + 1

\* "for attempt in range(3)"
HttpAttempts == 3

\* max(1, int(max_articles or 15))
ArticleCap(max_articles) == Max(1, IF max_articles = 0 THEN 15 ELSE max_articles)

Article(e) == [title |-> Strip(e.title), link |-> Strip(e.link)]

\* "if title and link"
Retained(e) == Strip(e.title) # "" /\ Strip(e.link) # ""

Return(v) ==
    /\ result' = v
    /\ cache' = CacheStore(cache, key, v, clock)
    /\ computed' = (computed \ {e \in computed : e.key = key})
                       \cup {[key |-> key, val |-> v, at |-> clock]}
    /\ pc' = "returned"

\* main -> fetch_news -> fetch_google_news, through the cache
Call(args) ==
    /\ pc \in {"idle", "rendered"}
    /\ key' = args
    /\ callAt' = clock
    /\ prev' = {e \in computed : e.key = args}
    /\ attempt' = 0
    /\ last_err' = ""
    /\ xml_text' = NoBody
    /\ item' = 0
    /\ articles' = <<>>
    /\ shown' = {}
    /\ gets' = 0
    /\ errlog' = <<>>
    /\ slept' = <<>>
    /\ xmlFailed' = FALSE
    /\ fallbackRan' = FALSE
    /\ fallbackFailed' = FALSE
    /\ IF CacheFresh(cache, args, clock)
       THEN /\ result' = CacheValue(cache, args)
            /\ pc' = "returned"
       ELSE /\ result' = NoResult
            /\ pc' = "http"
    /\ UNCHANGED <<clock, cache, computed, pureVars, concVars>>

\* one iteration of the retry loop
HttpOk(body) ==
    /\ pc = "http"
    /\ gets' = gets + 1
    /\ xml_text' = body
    /\ pc' = "parse"
    /\ UNCHANGED <<clock, cache, key, attempt, last_err, item, articles, result, shown,
                   errlog, slept, xmlFailed, fallbackRan, fallbackFailed, callAt, prev,
                   computed, pureVars, concVars>>

HttpFail(e) ==
    /\ pc = "http"
    /\ gets' = gets + 1
    /\ last_err' = e
    /\ errlog' = Append(errlog, e)
    /\ slept' = Append(slept, attempt + 1)
    /\ attempt' = attempt + 1
    /\ IF attempt + 1 = HttpAttempts
       THEN Return([articles |-> <<>>, err |-> HttpError(e)])
       ELSE UNCHANGED <<result, cache, computed, pc>>
    /\ UNCHANGED <<clock, key, xml_text, item, articles, shown, xmlFailed, fallbackRan,
                   fallbackFailed, callAt, prev, pureVars, concVars>>

\* a handler that drops the exception and goes on with what was retained
XmlExceptSkipsFallback ==
    /\ xmlFailed' = TRUE
    /\ pc' = "finish"

\* "except Exception:" of the XML strategy: on to the feedparser strategy
XmlExcept ==
    /\ xmlFailed' = TRUE
    /\ pc' = "fallback"

\* ET.fromstring and root.findall
XmlParse ==
    /\ pc = "parse"
    /\ IF xml_text.wf
       THEN /\ item' = 1
            /\ pc' = "items"
            /\ UNCHANGED xmlFailed
       ELSE /\ XmlExcept
            /\ UNCHANGED item
    /\ UNCHANGED <<clock, cache, key, attempt, last_err, xml_text, articles, result,
                   shown, gets, errlog, slept, fallbackRan, fallbackFailed, callAt, prev,
                   computed, pureVars, concVars>>

\* one iteration of "for item in root.findall(...)", or the loop's end
XmlItem ==
    /\ pc = "items"
    /\ IF item > Len(xml_text.entries)
       THEN /\ pc' = "finish"
            /\ UNCHANGED <<item, articles>>
       ELSE LET e == xml_text.entries[item]
                kept == IF Retained(e) THEN Append(articles, Article(e)) ELSE articles
            IN  /\ articles' = kept
                /\ IF Len(kept) >= ArticleCap(key.max_articles)
                   THEN pc' = "finish" /\ UNCHANGED item
                   ELSE item' = item + 1 /\ UNCHANGED pc
    /\ UNCHANGED <<clock, cache, key, attempt, last_err, xml_text, result, shown, gets,
                   errlog, slept, xmlFailed, fallbackRan, fallbackFailed, callAt, prev,
                   computed, pureVars, concVars>>

\* an exception raised inside the try block while an item is being processed
\* (the handler is "except Exception", so any runtime error there, such as a
\* MemoryError, lands in it; no feed content alone raises one once
\* ET.fromstring has succeeded): the handler takes over with articles as it
\* stands, the list is not cleared
XmlItemRaises ==
    /\ pc = "items"
    /\ item <= Len(xml_text.entries)
    /\ XmlExcept
    /\ UNCHANGED <<clock, cache, key, attempt, last_err, xml_text, item, articles,
                   result, shown, gets, errlog, slept, fallbackRan, fallbackFailed,
                   callAt, prev, computed, pureVars, concVars>>

\* the entries feedparser keeps of feed.entries[:cap], appended to articles
RECURSIVE FallbackAppend(_, _, _)
FallbackAppend(acc, entries, n) ==
    IF n = 0 \/ entries = <<>> THEN acc
    ELSE FallbackAppend(IF Retained(Head(entries))
                        THEN Append(acc, Article(Head(entries))) ELSE acc,
                        Tail(entries), n - 1)

\* the feedparser strategy, run to its end
Fallback ==
    /\ pc = "fallback"
    /\ fallbackRan' = TRUE
    /\ articles' = FallbackAppend(articles, xml_text.entries,
                                  ArticleCap(key.max_articles))
    /\ pc' = "finish"
    /\ UNCHANGED <<clock, cache, key, attempt, last_err, xml_text, item, result, shown,
                   gets, errlog, slept, xmlFailed, fallbackFailed, callAt, prev,
                   computed, pureVars, concVars>>

\* the feedparser strategy raises (the import, or the parse): "except Exception as e2"
FallbackRaises ==
    /\ pc = "fallback"
    /\ fallbackRan' = TRUE
    /\ fallbackFailed' = TRUE
    /\ Return([articles |-> <<>>, err |-> ParseError])
    /\ UNCHANGED <<clock, key, attempt, last_err, xml_text, item, articles, shown, gets,
                   errlog, slept, xmlFailed, callAt, prev, pureVars, concVars>>

\* an empty list returned as a success
FinalResultEmptySuccess(arts) == [articles |-> arts, err |-> NoErr]

\* "if not articles: return [], 'Feed returned no items ...'" / "return articles, None"
FinalResult(arts) ==
    IF arts = <<>>
    THEN [articles |-> <<>>, err |-> EmptyFeedError]
    ELSE [articles |-> arts, err |-> NoErr]

Finish ==
    /\ pc = "finish"
    /\ Return(FinalResult(articles))
    /\ UNCHANGED <<clock, key, attempt, last_err, xml_text, item, articles, shown, gets,
                   errlog, slept, xmlFailed, fallbackRan, fallbackFailed, callAt, prev,
                   pureVars, concVars>>

(***************************************************************************)
(* fetch_news and main: what the UI shows for the outcome                  *)
(***************************************************************************)
\* fetch_news: "if err: st.warning(err)"
FetchNewsShows(r) == IF r.err # NoErr THEN {"warning"} ELSE {}

\* main: "if not articles:" the warning card "Try a different query or source."
MainShows(r) == IF r.articles = <<>> THEN {"guidance"} ELSE {"cards"}

\* the locals of the finished call are gone once the page is rendered
Render ==
    /\ pc = "returned"
    /\ shown' = FetchNewsShows(result) \cup MainShows(result)
    /\ pc' = "rendered"
    /\ attempt' = 0 /\ last_err' = "" /\ xml_text' = NoBody /\ item' = 0
    /\ articles' = <<>>
    /\ gets' = 0 /\ errlog' = <<>> /\ slept' = <<>>
    /\ xmlFailed' = FALSE /\ fallbackRan' = FALSE /\ fallbackFailed' = FALSE
    /\ callAt' = 0 /\ prev' = {}
    /\ UNCHANGED <<clock, cache, key, result, computed, pureVars, concVars>>

Tick ==
    /\ clock + TickLen <= MaxClock
    /\ clock' = clock + TickLen
    /\ UNCHANGED <<cache, pc, key, attempt, last_err, xml_text, item, articles, result,
                   shown, histVars, pureVars, concVars>>

(***************************************************************************)
(* _google_news_url.  A query is absent (None) or a text, a sequence of    *)
(* characters; days_back is absent or an integer.  The URL is modelled by  *)
(* its query term and its "when:{days}d" value.                            *)
(***************************************************************************)
MaxQueryLen == 2       \* characters of a query
MaxDays == 3           \* days_back in -MaxDays..MaxDays

NoQuery == [given |-> FALSE, text |-> <<>>]
NoDays == [given |-> FALSE, n |-> 0]
NoUrl == [q |-> <<>>, days |-> 0]

\* the sessions that call the cached function
Sessions == {"s1", "s2", "s3"}

\* no "last_date" in the file
NoDate == [y |-> 0, m |-> 0, d |-> 0]
\* no data/streak.json
NoFile == [exists |-> FALSE, streak |-> 0, last_date |-> NoDate]

SentIdle == sa_env = "ok" /\ sa_texts = <<>> /\ sa_out = <<>>

StreakIdle ==
    sk_days = <<>> /\ sk_file = NoFile /\ sk_called = {} /\ sk_callsToday = 0

ConcIdle ==
    /\ cpc = [t \in Sessions |-> "idle"]
    /\ ckey = [t \in Sessions |-> Args("AI", 7, 1)]
    /\ locks = {}
    /\ creturns = {}
    /\ cstores = {}

PureIdle ==
    /\ bm_articles = <<>> /\ bm_val = 0
    /\ url_query = NoQuery /\ url_days = NoDays /\ url_out = NoUrl
    /\ kw_texts = <<>> /\ kw_top_k = 0 /\ kw_out = <<>>
    /\ SentIdle
    /\ StreakIdle

CallIdle ==
    /\ attempt = 0 /\ last_err = "" /\ item = 0 /\ articles = <<>>
    /\ result = NoResult /\ shown = {}
    /\ errlog = <<>> /\ slept = <<>>
    /\ xmlFailed = FALSE /\ fallbackRan = FALSE /\ fallbackFailed = FALSE
    /\ callAt = 0 /\ prev = {} /\ computed = {}
    /\ clock = 0 /\ cache = {}
    /\ ConcIdle

QueryChars == {"A", " ", "&"}

RECURSIVE CharSeqs(_, _)
CharSeqs(chars, n) ==
    IF n = 0 THEN {<<>>}
    ELSE CharSeqs(chars, n - 1)
             \cup {Append(t, c) : t \in CharSeqs(chars, n - 1), c \in chars}

\* str.strip()
RECURSIVE StripText(_)
StripText(t) ==
    IF t = <<>> THEN <<>>
    ELSE IF Head(t) = " " THEN StripText(Tail(t))
    ELSE IF t[Len(t)] = " " THEN StripText(SubSeq(t, 1, Len(t) - 1))
    ELSE t

\* urllib.parse.quote_plus on the characters above
RECURSIVE quote_plus(_)
quote_plus(t) ==
    IF t = <<>> THEN <<>>
    ELSE (CASE Head(t) = " " -> <<"+">>
            [] Head(t) = "&" -> <<"%", "2", "6">>
            [] OTHER -> <<Head(t)>>) \o quote_plus(Tail(t))

\* q = quote_plus(query.strip()) if query else "AI"
\* days = max(1, int(days_back or 7))
google_news_url(query, days_back) ==
    [q |-> IF query.given /\ query.text # <<>>
           THEN quote_plus(StripText(query.text))
           ELSE <<"A", "I">>,
     days |-> Max(1, IF days_back.given /\ days_back.n # 0 THEN days_back.n ELSE 7)]

InitUrl ==
    /\ pc = "url"
    /\ url_query \in {NoQuery}
           \cup [given : {TRUE}, text : CharSeqs(QueryChars, MaxQueryLen)]
    /\ url_days \in {NoDays} \cup [given : {TRUE}, n : (-MaxDays)..MaxDays]
    /\ url_out = NoUrl
    /\ bm_articles = <<>> /\ bm_val = 0
    /\ kw_texts = <<>> /\ kw_top_k = 0 /\ kw_out = <<>>
    /\ SentIdle /\ StreakIdle
    /\ key = Args("AI", 7, 1) /\ xml_text = NoBody /\ gets = 0
    /\ CallIdle

BuildUrl ==
    /\ pc = "url"
    /\ url_out' = google_news_url(url_query, url_days)
    /\ pc' = "urlDone"
    /\ UNCHANGED <<clock, cache, key, attempt, last_err, xml_text, item, articles,
                   result, shown, histVars, buzzVars, url_query, url_days, kwVars,
                   sentVars, streakVars, concVars>>

SpecUrl == InitUrl /\ [][BuildUrl]_vars

(***************************************************************************)
(* buzz_meter_value                                                        *)
(***************************************************************************)
MaxCount == 1000       \* article counts 0..MaxCount

\* a meter without its floor of 5
BuzzWithoutFloor(arts) == Min(100, (100 * Len(arts)) \div 40)

\* max(5, min(100, int(100 * (n / 40)))).  int() truncates the float product;
\* the float product is below the exact quotient only for n > 40, where min()
\* has saturated, so the value is that of the integer quotient.
buzz_meter_value(arts) == Max(5, Min(100, (100 * Len(arts)) \div 40))

ArticlesOfCount(k) == [n \in 1..k |-> "article"]

InitBuzz ==
    /\ pc = "buzz"
    /\ bm_articles \in {ArticlesOfCount(k) : k \in 0..MaxCount}
    /\ bm_val = 0
    /\ url_query = NoQuery /\ url_days = NoDays /\ url_out = NoUrl
    /\ kw_texts = <<>> /\ kw_top_k = 0 /\ kw_out = <<>>
    /\ SentIdle /\ StreakIdle
    /\ key = Args("AI", 7, 1) /\ xml_text = NoBody /\ gets = 0
    /\ CallIdle

\* pages/1_Trends.py: val = buzz_meter_value(articles)
BuzzMeter ==
    /\ pc = "buzz"
    /\ bm_val' = buzz_meter_value(bm_articles)
    /\ pc' = "buzzDone"
    /\ UNCHANGED <<clock, cache, key, attempt, last_err, xml_text, item, articles,
                   result, shown, histVars, bm_articles, urlVars, kwVars, sentVars,
                   streakVars, concVars>>

SpecBuzz == InitBuzz /\ [][BuzzMeter]_vars

(***************************************************************************)
(* extract_keywords, the strategy used when CountVectorizer is None.       *)
(* A text is a sequence of characters.                                     *)
(***************************************************************************)
MaxTexts == 2          \* texts of a batch
MaxTopK == 3           \* top_k in 0..MaxTopK

LowerLetters == <<"a", "b", "c", "d", "e", "f", "g", "h", "i", "j", "k", "l", "m",
                  "n", "o", "p", "q", "r", "s", "t", "u", "v", "w", "x", "y", "z">>
UpperLetters == <<"A", "B", "C", "D", "E", "F", "G", "H", "I", "J", "K", "L", "M",
                  "N", "O", "P", "Q", "R", "S", "T", "U", "V", "W", "X", "Y", "Z">>
Digits == {"0", "1", "2", "3", "4", "5", "6", "7", "8", "9"}

\* str.lower(), one character
LowerChar(c) ==
    IF \E n \in 1..26 : UpperLetters[n] = c
    THEN LowerLetters[CHOOSE n \in 1..26 : UpperLetters[n] = c]
    ELSE c

\* str.isalnum(), one character
IsAlnum(c) ==
    \/ \E n \in 1..26 : LowerLetters[n] = c \/ UpperLetters[n] = c
    \/ c \in Digits

Lower(t) == [n \in 1..Len(t) |-> LowerChar(t[n])]

\* str.split(): the maximal runs of non-blank characters
RECURSIVE SplitFrom(_, _, _)
SplitFrom(t, word, words) ==
    IF t = <<>> THEN (IF word = <<>> THEN words ELSE Append(words, word))
    ELSE IF Head(t) = " "
         THEN SplitFrom(Tail(t), <<>>, IF word = <<>> THEN words ELSE Append(words, word))
         ELSE SplitFrom(Tail(t), Append(word, Head(t)), words)

Split(t) == SplitFrom(t, <<>>, <<>>)

\* ''.join(ch for ch in w if ch.isalnum())
AlnumOnly(w) == SelectSeq(w, IsAlnum)

Fillers == { <<"t", "h", "e">>, <<"f", "r", "o", "m">>, <<"s", "a", "y", "s">>,
             <<"a", "n", "d">>, <<"o", "r">>, <<"a">>, <<"a", "n">>, <<"t", "o">>,
             <<"i", "n">>, <<"o", "f">>, <<"o", "n">>, <<"f", "o", "r">>,
             <<"w", "i", "t", "h">> }

\* a filter that keeps two-letter tokens
KeptTokenFromTwo(w) == ~(Len(w) < 2 \/ w \in Fillers)

\* "if len(w) < 3 or w in fillers: continue"
KeptToken(w) == ~(Len(w) < 3 \/ w \in Fillers)

RECURSIVE TokensOfWords(_)
TokensOfWords(words) ==
    IF words = <<>> THEN <<>>
    ELSE LET w == AlnumOnly(Head(words))
         IN  (IF KeptToken(w) THEN <<w>> ELSE <<>>) \o TokensOfWords(Tail(words))

RECURSIVE Tokens(_)
Tokens(texts) ==
    IF texts = <<>> THEN <<>>
    ELSE TokensOfWords(Split(Lower(Head(texts)))) \o Tokens(Tail(texts))

\* Counter(tokens): the distinct tokens in first-encountered order, with counts
RECURSIVE Counter(_, _)
Counter(tokens, seen) ==
    IF tokens = <<>> THEN <<>>
    ELSE LET w == Head(tokens)
         IN  IF w \in seen THEN Counter(Tail(tokens), seen)
             ELSE <<[term |-> w,
                     count |-> 1 + Len(SelectSeq(Tail(tokens), LAMBDA x : x = w))]>>
                      \o Counter(Tail(tokens), seen \cup {w})

\* a ranking that puts the last encountered of equal counts first
RECURSIVE MostCommonLastFirst(_, _)
MostCommonLastFirst(cnt, k) ==
    IF k <= 0 \/ cnt = <<>> THEN <<>>
    ELSE LET best == CHOOSE n \in 1..Len(cnt) :
                         /\ \A m \in 1..Len(cnt) : cnt[m].count <= cnt[n].count
                         /\ \A m \in (n + 1)..Len(cnt) : cnt[m].count < cnt[n].count
             rest == [m \in 1..(Len(cnt) - 1) |-> IF m < best THEN cnt[m] ELSE cnt[m + 1]]
         IN  <<cnt[best]>> \o MostCommonLastFirst(rest, k - 1)

\* Counter.most_common(k): by descending count, equal counts in the order first
\* encountered; nothing for k <= 0
RECURSIVE most_common(_, _)
most_common(cnt, k) ==
    IF k <= 0 \/ cnt = <<>> THEN <<>>
    ELSE LET best == CHOOSE n \in 1..Len(cnt) :
                         /\ \A m \in 1..Len(cnt) : cnt[m].count <= cnt[n].count
                         /\ \A m \in 1..(n - 1) : cnt[m].count < cnt[n].count
             rest == [m \in 1..(Len(cnt) - 1) |-> IF m < best THEN cnt[m] ELSE cnt[m + 1]]
         IN  <<cnt[best]>> \o most_common(rest, k - 1)

extract_keywords(texts, top_k) ==
    IF texts = <<>> THEN <<>>
    ELSE most_common(Counter(Tokens(texts), {}), top_k)

\* "AI helps doctors", "AI helps lawyers", "doctors use AI"
ExampleTexts ==
    << <<"A", "I", " ", "h", "e", "l", "p", "s", " ", "d", "o", "c", "t", "o", "r", "s">>,
       <<"A", "I", " ", "h", "e", "l", "p", "s", " ", "l", "a", "w", "y", "e", "r", "s">>,
       <<"d", "o", "c", "t", "o", "r", "s", " ", "u", "s", "e", " ", "A", "I">> >>

\* the empty text is also what "t or ''" makes of a missing text
SampleTexts == { <<>>,
                 <<"t", "h", "e", " ", "A", "I">>,
                 <<"C", "a", "t", "s", ",", " ", "c", "a", "t", "s", "!">>,
                 <<"c", "a", "t", "s", " ", "a", "n", "d", " ", "d", "o", "g", "s">>,
                 <<"D", "o", "g", "s">> }

RECURSIVE TextSeqs(_)
TextSeqs(n) ==
    IF n = 0 THEN {<<>>}
    ELSE TextSeqs(n - 1) \cup {Append(s, t) : s \in TextSeqs(n - 1), t \in SampleTexts}

InitKw ==
    /\ pc = "kw"
    /\ \/ kw_texts = ExampleTexts
       \/ kw_texts \in TextSeqs(MaxTexts)
    /\ kw_top_k \in 0..MaxTopK
    /\ kw_out = <<>>
    /\ bm_articles = <<>> /\ bm_val = 0
    /\ url_query = NoQuery /\ url_days = NoDays /\ url_out = NoUrl
    /\ SentIdle /\ StreakIdle
    /\ key = Args("AI", 7, 1) /\ xml_text = NoBody /\ gets = 0
    /\ CallIdle

\* pages/1_Trends.py: kw = extract_keywords(texts, top_k=10)
ExtractKeywords ==
    /\ pc = "kw"
    /\ kw_out' = extract_keywords(kw_texts, kw_top_k)
    /\ pc' = "kwDone"
    /\ UNCHANGED <<clock, cache, key, attempt, last_err, xml_text, item, articles,
                   result, shown, histVars, buzzVars, urlVars, kw_texts, kw_top_k,
                   sentVars, streakVars, concVars>>

SpecKw == InitKw /\ [][ExtractKeywords]_vars

(***************************************************************************)
(* _init_vader and analyze_sentiment_batch.  A text is missing (None) or a *)
(* string; a string is identified by the compound score, in hundredths,    *)
(* that SentimentIntensityAnalyzer.polarity_scores gives it.  The empty    *)
(* string scores 0.                                                        *)
(***************************************************************************)
MaxCompound == 100     \* compound scores -MaxCompound..MaxCompound, hundredths
MaxBatch == 2          \* texts of a batch

NoneText == [given |-> FALSE, compound |-> 0]
EmptyText == [given |-> TRUE, compound |-> 0]
TextScoring(c) == [given |-> TRUE, compound |-> c]

\* the library, as the process finds it
VaderEnvs == {"ok", "missing", "initfails"}

\* an initialisation that hands out an analyzer although its set-up raised
InitVaderIgnoresFailure(env) == env # "missing"

\* _init_vader: is there an analyzer?  None when the import failed
\* (SentimentIntensityAnalyzer is None) or when the set-up raises
init_vader(env) == env = "ok"

\* "t or ''"
OrEmpty(t) == IF t.given THEN t ELSE EmptyText

\* sia.polarity_scores(text)["compound"]
polarity_scores(t) == t.compound

\* the thresholds 0.2 and -0.2, in hundredths
PositiveAbove == 20
NegativeBelow == -20

\* a labelling that counts the boundary values in
LabelInclusive(c) ==
    IF c >= PositiveAbove THEN "positive"
    ELSE IF c <= NegativeBelow THEN "negative" ELSE "neutral"

\* "positive" if compound > 0.2 else ("negative" if compound < -0.2 else "neutral")
Label(c) ==
    IF c > PositiveAbove THEN "positive"
    ELSE IF c < NegativeBelow THEN "negative" ELSE "neutral"

\* one iteration of "for t in texts"
SentimentOf(t, sia) ==
    IF ~sia THEN [compound |-> 0, label |-> "neutral"]
    ELSE LET c == polarity_scores(OrEmpty(t))
         IN  [compound |-> c, label |-> Label(c)]

\* a batch that leaves the missing texts out
RECURSIVE SentimentBatchSkippingNone(_, _)
SentimentBatchSkippingNone(texts, env) ==
    IF texts = <<>> THEN <<>>
    ELSE (IF Head(texts).given THEN <<SentimentOf(Head(texts), init_vader(env))>>
          ELSE <<>>) \o SentimentBatchSkippingNone(Tail(texts), env)

RECURSIVE analyze_sentiment_batch(_, _)
analyze_sentiment_batch(texts, env) ==
    IF texts = <<>> THEN <<>>
    ELSE <<SentimentOf(Head(texts), init_vader(env))>>
             \o analyze_sentiment_batch(Tail(texts), env)

\* scores on both sides of the thresholds, on them, and far from them
SampleScores == {-100, -50, -21, -20, -19, 0, 19, 20, 21, 50, 100}
SampleSentTexts == {NoneText, EmptyText} \cup {TextScoring(c) : c \in SampleScores}

RECURSIVE SentTextSeqs(_)
SentTextSeqs(n) ==
    IF n = 0 THEN {<<>>}
    ELSE SentTextSeqs(n - 1)
             \cup {Append(s, t) : s \in SentTextSeqs(n - 1), t \in SampleSentTexts}

\* a batch of sample texts, or one text of any score
InitSent ==
    /\ pc = "sent"
    /\ sa_env \in VaderEnvs
    /\ \/ sa_texts \in SentTextSeqs(MaxBatch)
       \/ sa_texts \in {<<TextScoring(c)>> : c \in (-MaxCompound)..MaxCompound}
    /\ sa_out = <<>>
    /\ bm_articles = <<>> /\ bm_val = 0
    /\ url_query = NoQuery /\ url_days = NoDays /\ url_out = NoUrl
    /\ kw_texts = <<>> /\ kw_top_k = 0 /\ kw_out = <<>>
    /\ StreakIdle
    /\ key = Args("AI", 7, 1) /\ xml_text = NoBody /\ gets = 0
    /\ CallIdle

\* AI_News.py main: sentiments = analyze_sentiment_batch([...])
AnalyzeSentimentBatch ==
    /\ pc = "sent"
    /\ sa_out' = analyze_sentiment_batch(sa_texts, sa_env)
    /\ pc' = "sentDone"
    /\ UNCHANGED <<clock, cache, key, attempt, last_err, xml_text, item, articles,
                   result, shown, histVars, buzzVars, urlVars, kwVars, sa_env,
                   sa_texts, streakVars, concVars>>

SpecSent == InitSent /\ [][AnalyzeSentimentBatch]_vars

(***************************************************************************)
(* get_daily_streak and increment_daily_streak.  A date is what            *)
(* strftime("%Y-%m-%d") prints: year, month, day.                          *)
(***************************************************************************)
MaxStreakDays == 6     \* calendar days a run goes through
MaxCallsPerDay == 2    \* calls of increment_daily_streak on one day

IsLeap(y) == (y % 4 = 0 /\ y % 100 # 0) \/ y % 400 = 0

DaysIn(y, m) ==
    IF m = 2 THEN (IF IsLeap(y) THEN 29 ELSE 28)
    ELSE IF m \in {4, 6, 9, 11} THEN 30 ELSE 31

\* the calendar: the date that follows a date
NextDate(t) ==
    IF t.d < DaysIn(t.y, t.m) THEN [t EXCEPT !.d = t.d + 1]
    ELSE IF t.m < 12 THEN [y |-> t.y, m |-> t.m + 1, d |-> 1]
    ELSE [y |-> t.y + 1, m |-> 1, d |-> 1]

\* (datetime.strptime(today, "%Y-%m-%d") - timedelta(days=1)).strftime("%Y-%m-%d")
Yesterday(t) ==
    IF t.d > 1 THEN [t EXCEPT !.d = t.d - 1]
    ELSE IF t.m > 1 THEN [y |-> t.y, m |-> t.m - 1, d |-> DaysIn(t.y, t.m - 1)]
    ELSE [y |-> t.y - 1, m |-> 12, d |-> 31]

\* the first days of the runs: before a year's end, before a leap day, and
\* before the end of a February without one
StartDates == { [y |-> 2023, m |-> 12, d |-> 30],
                [y |-> 2024, m |-> 2, d |-> 27],
                [y |-> 2023, m |-> 2, d |-> 27] }

\* int(data.get("streak", 0)) of _load_json(STREAK_FILE)
get_daily_streak(file) == IF file.exists THEN file.streak ELSE 0

\* an increment that goes on counting over a gap
IncrementIgnoringGaps(file, today) ==
    LET last == IF file.exists THEN file.last_date ELSE NoDate
    IN  IF last = today THEN file
        ELSE [exists |-> TRUE, streak |-> get_daily_streak(file) + 1,
              last_date |-> today]

\* increment_daily_streak: the file it leaves
increment_daily_streak(file, today) ==
    LET last == IF file.exists THEN file.last_date ELSE NoDate
    IN  IF last = today THEN file
        ELSE LET streak == get_daily_streak(file)
             IN  [exists |-> TRUE,
                  streak |-> IF last = Yesterday(today) THEN streak + 1 ELSE 1,
                  last_date |-> today]

\* datetime.now().strftime("%Y-%m-%d")
Today == sk_days[Len(sk_days)]

InitStreak ==
    /\ pc = "streak"
    /\ sk_days \in {<<t>> : t \in StartDates}
    /\ sk_file = NoFile
    /\ sk_called = {}
    /\ sk_callsToday = 0
    /\ bm_articles = <<>> /\ bm_val = 0
    /\ url_query = NoQuery /\ url_days = NoDays /\ url_out = NoUrl
    /\ kw_texts = <<>> /\ kw_top_k = 0 /\ kw_out = <<>>
    /\ SentIdle
    /\ key = Args("AI", 7, 1) /\ xml_text = NoBody /\ gets = 0
    /\ CallIdle

\* AI_News.py main: increment_daily_streak()
IncrementDailyStreak ==
    /\ pc = "streak"
    /\ sk_callsToday < MaxCallsPerDay
    /\ sk_file' = increment_daily_streak(sk_file, Today)
    /\ sk_called' = sk_called \cup {Len(sk_days)}
    /\ sk_callsToday' = sk_callsToday + 1
    /\ UNCHANGED <<fetchVars, histVars, buzzVars, urlVars, kwVars, sentVars, sk_days,
                   concVars>>

\* midnight
NextDay ==
    /\ pc = "streak"
    /\ Len(sk_days) < MaxStreakDays
    /\ sk_days' = Append(sk_days, NextDate(Today))
    /\ sk_callsToday' = 0
    /\ UNCHANGED <<fetchVars, histVars, buzzVars, urlVars, kwVars, sentVars, sk_file,
                   sk_called, concVars>>

NextStreak == IncrementDailyStreak \/ NextDay

SpecStreak == InitStreak /\ [][NextStreak]_vars

(***************************************************************************)
(* Sessions calling fetch_google_news concurrently.  Each Streamlit        *)
(* session runs the script in a thread of its own; the process-wide cache  *)
(* of st.cache_data is what they share.  A call reads the cache; on a miss *)
(* it takes the compute lock of its key, reads the cache again, and only   *)
(* then runs the function body and stores what it returned.  The body      *)
(* works on locals only, so a session's run of it is one step here, with   *)
(* any of the outcomes the pipeline above can end in.                      *)
(***************************************************************************)
\* the XML strategy run to its end: "for item in root.findall(...)"
RECURSIVE XmlRetained(_, _, _)
XmlRetained(acc, entries, cap) ==
    IF entries = <<>> THEN acc
    ELSE LET kept == IF Retained(Head(entries))
                     THEN Append(acc, Article(Head(entries))) ELSE acc
         IN  IF Len(kept) >= cap THEN kept
             ELSE XmlRetained(kept, Tail(entries), cap)

\* what one run of the body of fetch_google_news can return for the feeds
\* served: the HTTP error, the parse error, or the final result of the XML
\* strategy (well-formed body) or of the feedparser strategy (malformed body)
FetchOutcomes(args) ==
    {[articles |-> <<>>, err |-> HttpError(e)] : e \in Errs}
        \cup {[articles |-> <<>>, err |-> ParseError]}
        \cup {FinalResult(IF body.wf
                          THEN XmlRetained(<<>>, body.entries,
                                           ArticleCap(args.max_articles))
                          ELSE FallbackAppend(<<>>, body.entries,
                                              ArticleCap(args.max_articles))) :
                 body \in ServedBodies}

\* the arguments the sessions call with: all the same
ConcArgs == {Args("AI", 7, 2)}

\* a lock that never blocks
LockAlwaysFree(l, k) == TRUE

\* the compute lock of key k can be taken
LockFree(l, k) == k \notin l

Returned(t, k, v, how) ==
    creturns' = creturns \cup {[key |-> k, val |-> v, at |-> clock, how |-> how]}

\* the call, and its first look into the cache
CCall(t, args) ==
    /\ cpc[t] = "idle"
    /\ ckey' = [ckey EXCEPT ![t] = args]
    /\ IF CacheFresh(cache, args, clock)
       THEN /\ Returned(t, args, CacheValue(cache, args), "hit")
            /\ UNCHANGED cpc
       ELSE /\ cpc' = [cpc EXCEPT ![t] = "miss"]
            /\ UNCHANGED creturns
    /\ UNCHANGED <<clock, cache, pc, key, attempt, last_err, xml_text, item, articles,
                   result, shown, histVars, pureVars, locks, cstores>>

\* after a miss: take the lock of the key, and look into the cache again
CAcquire(t) ==
    /\ cpc[t] = "miss"
    /\ LockFree(locks, ckey[t])
    /\ IF CacheFresh(cache, ckey[t], clock)
       THEN /\ Returned(t, ckey[t], CacheValue(cache, ckey[t]), "hit after miss")
            /\ cpc' = [cpc EXCEPT ![t] = "idle"]
            /\ UNCHANGED locks
       ELSE /\ locks' = locks \cup {ckey[t]}
            /\ cpc' = [cpc EXCEPT ![t] = "compute"]
            /\ UNCHANGED creturns
    /\ UNCHANGED <<clock, cache, pc, key, attempt, last_err, xml_text, item, articles,
                   result, shown, histVars, pureVars, ckey, cstores>>

\* the body has run: store its value, release the lock, return
CCompute(t, v) ==
    /\ cpc[t] = "compute"
    /\ cache' = CacheStore(cache, ckey[t], v, clock)
    /\ locks' = locks \ {ckey[t]}
    /\ Returned(t, ckey[t], v, "computed")
    /\ cstores' = cstores \cup {[key |-> ckey[t], val |-> v, at |-> clock]}
    /\ cpc' = [cpc EXCEPT ![t] = "idle"]
    /\ UNCHANGED <<clock, pc, key, attempt, last_err, xml_text, item, articles,
                   result, shown, histVars, pureVars, ckey>>

\* time passes; the history older than TTL is dropped
CTick ==
    /\ clock + TickLen <= MaxClock
    /\ clock' = clock + TickLen
    /\ creturns' = {r \in creturns : clock' - r.at < TTL}
    /\ cstores' = {w \in cstores : clock' - w.at < TTL}
    /\ UNCHANGED <<cache, pc, key, attempt, last_err, xml_text, item, articles, result,
                   shown, histVars, pureVars, cpc, ckey, locks>>

InitConc ==
    /\ pc = "conc"
    /\ key = Args("AI", 7, 1) /\ xml_text = NoBody /\ gets = 0
    /\ CallIdle
    /\ PureIdle

NextConc ==
    \/ \E t \in Sessions, args \in ConcArgs : CCall(t, args)
    \/ \E t \in Sessions : CAcquire(t)
    \/ \E t \in Sessions : \E v \in FetchOutcomes(ckey[t]) : CCompute(t, v)
    \/ CTick

SpecConc == InitConc /\ [][NextConc]_vars

(***************************************************************************)
(* Specifications of the pipeline                                          *)
(***************************************************************************)
Init ==
    /\ pc = "idle"
    /\ key = Args("AI", 7, 1)
    /\ xml_text = NoBody
    /\ gets = 0
    /\ CallIdle
    /\ PureIdle

Next ==
    \/ \E args \in CallArgs : Call(args)
    \/ \E body \in ServedBodies : HttpOk(body)
    \/ \E e \in Errs : HttpFail(e)
    \/ XmlParse
    \/ XmlItem
    \/ XmlItemRaises
    \/ Fallback
    \/ FallbackRaises
    \/ Finish
    \/ Render
    \/ Tick

Spec == Init /\ [][Next]_vars

\* one uncached call, from the successful response (of its first GET) on
InitParse ==
    /\ pc = "parse"
    /\ key \in {Args("AI", 7, m) : m \in (-1)..MaxArticles}
    /\ xml_text \in Bodies(MaxItems)
    /\ gets = 1
    /\ CallIdle
    /\ PureIdle

NextParse ==
    \/ XmlParse
    \/ XmlItem
    \/ XmlItemRaises
    \/ Fallback
    \/ FallbackRaises
    \/ Finish

SpecParse == InitParse /\ [][NextParse]_vars

(***************************************************************************)
(* Claims about the pipeline                                               *)
(***************************************************************************)
\* a GET of the current call succeeded
Fetched == gets - Len(errlog) = 1

\* C1: for max_items >= 1 the returned list has at most max_items articles,
\* each with a non-empty title and a non-empty link, however the XML strategy
\* ended.
C1_BoundedValidArticles ==
    (pc = "returned" /\ key.max_articles >= 1) =>
        /\ Len(result.articles) <= key.max_articles
        /\ \A n \in 1..Len(result.articles) :
               result.articles[n].title # "" /\ result.articles[n].link # ""

\* C2: a call is answered without a GET, with the value the last fetch-and-parse
\* of the same arguments produced, exactly when that fetch-and-parse ended less
\* than 300 seconds before the call; otherwise the call fetches, and its result
\* is what the cache then holds for those arguments.
C2_CacheWithinTtl ==
    pc = "returned" =>
        LET fresh == \E e \in prev : callAt - e.at < 300
        IN  /\ (gets = 0) <=> fresh
            /\ fresh => \A e \in prev : result = e.val
            /\ ~fresh =>
                   /\ \E e \in cache : e.key = key /\ e.val = result /\ e.at >= callAt
                   /\ Cardinality({e \in cache : e.key = key}) = 1

C2_Witness ==
    /\ pc = "returned"
    /\ gets = 0
    /\ \E e \in prev : callAt > e.at /\ e.val.err = NoErr

\* C3: a call issues at most 3 GETs and none after one that succeeded; when
\* all 3 fail it returns ([], HTTP error of the third failure) without parsing.
C3_HttpRetries ==
    /\ gets <= 3
    /\ gets - Len(errlog) \in {0, 1}
    /\ Fetched => pc # "http"
    /\ (pc = "returned" /\ gets > 0) =>
           /\ (result.err.kind = "http") <=> (Len(errlog) = 3)
           /\ Len(errlog) = 3 =>
                  /\ result = [articles |-> <<>>,
                               err |-> [kind |-> "http", cause |-> errlog[3]]]
                  /\ ~xmlFailed /\ ~fallbackRan /\ item = 0 /\ articles = <<>>

C3_Witness ==
    /\ pc = "returned"
    /\ Len(errlog) = 3
    /\ errlog[1] # errlog[3]

\* every entry of the body lacks a title or a link
NothingUsable(body) ==
    \A n \in 1..Len(body.entries) :
        body.entries[n].title \in {"", " "} \/ body.entries[n].link \in {"", " "}

\* C4: a call ends as (articles, no error), ([], HTTP error), ([], parse error)
\* or ([], empty feed); there is no error exactly when there are articles; and
\* a well-formed feed whose XML pass ended with nothing retained (no items, or
\* all dropped) gives the empty-feed error.
C4_FourOutcomes ==
    pc = "returned" =>
        /\ result.err.kind \in {"none", "http", "parse", "empty"}
        /\ (result.err.kind = "none") <=> (result.articles # <<>>)
        /\ (Fetched /\ xml_text.wf /\ ~xmlFailed /\ NothingUsable(xml_text))
               => result.err.kind = "empty"
        /\ (Fetched /\ fallbackRan /\ ~fallbackFailed /\ NothingUsable(xml_text))
               => result.err.kind = "empty"

C4_Witness ==
    /\ pc = "returned"
    /\ Fetched
    /\ xml_text.wf
    /\ ~xmlFailed
    /\ Len(xml_text.entries) > 0
    /\ result.err.kind = "empty"

\* C5: when the XML strategy raises, on malformed XML or during the traversal,
\* the feedparser strategy runs on the same body; it runs in no other case; and
\* the call ends in the parse error exactly when the feedparser strategy raised.
C5_FallbackOnXmlFailure ==
    /\ fallbackRan => xmlFailed
    /\ fallbackFailed => fallbackRan
    /\ pc \in {"finish", "returned"} =>
           /\ xmlFailed => fallbackRan
           /\ ~xml_text.wf => fallbackRan
    /\ pc = "returned" => ((result.err.kind = "parse") <=> fallbackFailed)

C5_Witness ==
    /\ pc = "returned"
    /\ ~xml_text.wf
    /\ fallbackRan
    /\ result.err = NoErr

\* the first n entries of a feed that have a title and a link
RECURSIVE FirstValid(_, _)
FirstValid(entries, n) ==
    IF n = 0 \/ entries = <<>> THEN <<>>
    ELSE LET e == Head(entries)
         IN  IF e.title \in {"", " "} \/ e.link \in {"", " "}
             THEN FirstValid(Tail(entries), n)
             ELSE <<[title |-> e.title, link |-> e.link]>>
                      \o FirstValid(Tail(entries), n - 1)

\* C6: for max_items >= 1, whichever strategy produced it, the result is the
\* first min(max_items, number of valid entries) valid entries of the feed, in
\* order.
C6_InvalidEntriesNotCounted ==
    (pc = "returned" /\ key.max_articles >= 1 /\ result.err.kind \in {"none", "empty"}) =>
        result.articles = FirstValid(xml_text.entries, key.max_articles)

\* C10: the guidance to try another query is shown only for the empty-feed
\* outcome, and the technical warning only for an HTTP or a parse error.
C10_UiTellsOutcomesApart ==
    pc = "rendered" =>
        /\ ("guidance" \in shown) <=> (result.err.kind = "empty")
        /\ ("warning" \in shown) <=> (result.err.kind \in {"http", "parse"})

\* C12: while the XML strategy traverses the items, the number of retained
\* articles never exceeds max(1, max_articles), and an item is examined only
\* while fewer than max(1, max_articles) articles are retained.
C12_CapDuringTraversal ==
    /\ (~xmlFailed /\ pc \in {"items", "finish", "returned"} /\ Fetched) =>
           Len(articles) <= Max(1, key.max_articles)
    /\ (pc = "items" /\ item <= Len(xml_text.entries)) =>
           Len(articles) < Max(1, key.max_articles)

\* C18: when the XML strategy raised and the feedparser strategy then ran to
\* its end, the returned list is what the feedparser strategy alone produces
\* from the body, and no article occurs in it twice.
C18_OnlyFallbackArticles ==
    (pc = "returned" /\ key.max_articles >= 1 /\ xmlFailed /\ fallbackRan
         /\ ~fallbackFailed) =>
        /\ result.articles = FallbackAppend(<<>>, xml_text.entries,
                                            ArticleCap(key.max_articles))
        /\ \A m, n \in 1..Len(result.articles) :
               m # n => result.articles[m] # result.articles[n]

\* a return r falls into the validity window that the store w opened
InWindow(r, w) == r.key = w.key /\ w.at <= r.at /\ r.at - w.at < 300

C11_WaitsOnlyBetweenAttempts ==
    /\ \A n \in 1..Len(slept) : slept[n] = n
    /\ (pc = "returned" /\ gets > 0 /\ Fetched) => Len(slept) = gets - 1
    /\ (pc = "returned" /\ gets > 0 /\ Len(errlog) = 3) => Len(slept) = 2

(***************************************************************************)
(* Claims about the pure functions                                         *)
(***************************************************************************)
\* round(a / b), halves to the even neighbour
RoundHalfEven(a, b) ==
    LET q == a \div b
        r == a % b
    IN  IF 2 * r < b THEN q
        ELSE IF 2 * r > b THEN q + 1
        ELSE IF q % 2 = 0 THEN q ELSE q + 1

\* C7 as stated: the meter is max(5, min(100, round(100 * n / 40))).
C7_BuzzRounded ==
    pc = "buzzDone" =>
        bm_val = Max(5, Min(100, RoundHalfEven(100 * Len(bm_articles), 40)))

\* C7, amended: the meter is max(5, min(100, floor(100 * n / 40))): it lies in
\* 5..100, between the clamps it is the quotient of 100 * n by 40 rounded down,
\* it does not decrease with n, and it is 5, 50, 100, 100 for n = 0, 20, 40, 1000.
C7_BuzzTruncated ==
    pc = "buzzDone" =>
        LET n == Len(bm_articles)
        IN  /\ bm_val \in 5..100
            /\ bm_val = 5 => 100 * n < 40 * 6
            /\ bm_val = 100 => 100 * n >= 40 * 100
            /\ bm_val \in 6..99 => (40 * bm_val <= 100 * n /\ 100 * n < 40 * (bm_val + 1))
            /\ n > 0 => buzz_meter_value(ArticlesOfCount(n - 1)) <= bm_val
            /\ n = 0 => bm_val = 5
            /\ n = 20 => bm_val = 50
            /\ n = 40 => bm_val = 100
            /\ n = 1000 => bm_val = 100

C7_Witness ==
    /\ pc = "buzzDone"
    /\ Len(bm_articles) = 3
    /\ bm_val = 7

Term(w, n) == [term |-> w, count |-> n]

\* C8 as stated: for the three example texts and top_k = 2 the result has at
\* most 2 entries and "ai" is the first of them.
C8_AiRankedFirst ==
    (pc = "kwDone" /\ kw_texts = ExampleTexts /\ kw_top_k = 2) =>
        /\ Len(kw_out) <= 2
        /\ Len(kw_out) >= 1
        /\ kw_out[1].term = <<"a", "i">>

\* C8, amended: for the three example texts and top_k = 2 the result has at
\* most 2 entries, "ai" (shorter than 3 characters) is not among them, and the
\* result is ("helps", 2), ("doctors", 2), in the order first encountered.
C8_AiDroppedHelpsFirst ==
    (pc = "kwDone" /\ kw_texts = ExampleTexts /\ kw_top_k = 2) =>
        /\ Len(kw_out) <= 2
        /\ \A n \in 1..Len(kw_out) : kw_out[n].term # <<"a", "i">>
        /\ kw_out = <<Term(<<"h", "e", "l", "p", "s">>, 2), Term(<<"d", "o", "c", "t", "o", "r", "s">>, 2)>>

C8_Witness ==
    /\ pc = "kwDone"
    /\ kw_texts = ExampleTexts
    /\ kw_top_k = 2
    /\ Len(kw_out) = 2

\* the positions <<text, word>> of the blank-separated words of the texts
WordPositions(texts) ==
    UNION {{<<i, j>> : j \in 1..Len(Split(texts[i]))} : i \in 1..Len(texts)}

\* the word at a position, lowercased, without its non-alphanumeric characters
WordAt(texts, p) == AlnumOnly(Lower(Split(texts[p[1]])[p[2]]))

Occurrences(texts, w) == {p \in WordPositions(texts) : WordAt(texts, p) = w}

Before(p, q) == p[1] < q[1] \/ (p[1] = q[1] /\ p[2] < q[2])

FirstSeen(texts, w) ==
    CHOOSE p \in Occurrences(texts, w) :
        \A q \in Occurrences(texts, w) : p = q \/ Before(p, q)

\* lowercase alphanumeric, 3 characters or more, not a filler word
Countable(w) ==
    /\ Len(w) >= 3
    /\ \A n \in 1..Len(w) : IsAlnum(w[n]) /\ LowerChar(w[n]) = w[n]
    /\ w \notin Fillers

CountableWords(texts) ==
    {w \in {WordAt(texts, p) : p \in WordPositions(texts)} : Countable(w)}

\* C17: the no-vectorizer result has at most top_k entries with pairwise
\* distinct terms; every term is a lowercase alphanumeric word of 3 characters
\* or more that is no filler word, and its count is the number of its
\* occurrences in all the texts; the entries are in descending count, equal
\* counts in the order first encountered, and no word left out would come
\* before one that is in; no texts give no entries.
C17_FallbackKeywords ==
    pc = "kwDone" =>
        LET out == kw_out
            Ranked(v, vc, w, wc) ==
                vc > wc \/ (vc = wc /\ Before(FirstSeen(kw_texts, v), FirstSeen(kw_texts, w)))
        IN  /\ Len(out) <= kw_top_k
            /\ Len(out) = Min(kw_top_k, Cardinality(CountableWords(kw_texts)))
            /\ \A m, n \in 1..Len(out) : m # n => out[m].term # out[n].term
            /\ \A n \in 1..Len(out) :
                   /\ Countable(out[n].term)
                   /\ out[n].count = Cardinality(Occurrences(kw_texts, out[n].term))
                   /\ out[n].count >= 1
            /\ \A m, n \in 1..Len(out) :
                   m < n => Ranked(out[m].term, out[m].count, out[n].term, out[n].count)
            /\ \A w \in CountableWords(kw_texts) :
                   (\A n \in 1..Len(out) : out[n].term # w) =>
                       \A n \in 1..Len(out) :
                           Ranked(out[n].term, out[n].count,
                                  w, Cardinality(Occurrences(kw_texts, w)))
            /\ kw_texts = <<>> => out = <<>>

\* a result cut at top_k whose first two entries have equal counts
C17_Witness ==
    /\ pc = "kwDone"
    /\ kw_top_k >= 2
    /\ Len(kw_out) = kw_top_k
    /\ kw_out[1].count = kw_out[2].count
    /\ kw_out[1].count >= 2
    /\ Cardinality(CountableWords(kw_texts)) > kw_top_k

\* C14: with an analyzer, a result is labelled positive exactly when its
\* compound score is above 0.2, negative exactly when it is below -0.2, and
\* neutral otherwise; 0.2 and -0.2 themselves are neutral.
C14_LabelThresholds ==
    (pc = "sentDone" /\ sa_env = "ok") =>
        \A n \in 1..Len(sa_out) :
            LET r == sa_out[n]
            IN  /\ r.label \in {"positive", "negative", "neutral"}
                /\ (r.label = "positive") <=> (r.compound > 20)
                /\ (r.label = "negative") <=> (r.compound < -20)
                /\ r.compound \in {20, -20} => r.label = "neutral"

C14_Witness ==
    /\ pc = "sentDone"
    /\ sa_env = "ok"
    /\ Len(sa_out) = 2
    /\ sa_out[1] = [compound |-> 20, label |-> "neutral"]
    /\ sa_out[2] = [compound |-> -21, label |-> "negative"]

\* C15: the batch has one result per text, in the order of the texts: result n
\* is that of text n (of the empty string when text n is missing), with or
\* without an analyzer.
C15_OneResultPerText ==
    pc = "sentDone" =>
        /\ Len(sa_out) = Len(sa_texts)
        /\ \A n \in 1..Len(sa_out) :
               IF sa_env = "ok"
               THEN sa_out[n].compound
                        = (IF sa_texts[n].given THEN sa_texts[n].compound ELSE 0)
               ELSE sa_out[n].compound = 0 /\ sa_out[n].label = "neutral"

C15_Witness ==
    /\ pc = "sentDone"
    /\ sa_env = "ok"
    /\ Len(sa_texts) = 2
    /\ sa_texts[1] = NoneText
    /\ sa_texts[2] = TextScoring(50)
    /\ sa_out[2].label = "positive"

\* C16: without an analyzer (the library is missing, or its set-up fails) the
\* batch completes, and every result is compound 0.0 with label neutral,
\* whatever the text.
C16_NeutralWithoutAnalyzer ==
    (pc = "sentDone" /\ sa_env \in {"missing", "initfails"}) =>
        /\ Len(sa_out) = Len(sa_texts)
        /\ \A n \in 1..Len(sa_out) : sa_out[n] = [compound |-> 0, label |-> "neutral"]

C16_Witness ==
    /\ pc = "sentDone"
    /\ sa_env = "initfails"
    /\ Len(sa_texts) = 2
    /\ sa_texts[1] = EmptyText
    /\ sa_texts[2] = TextScoring(100)
    /\ sa_out[2] = [compound |-> 0, label |-> "neutral"]

\* the length of the run of consecutive days of S that ends at day n of S
RunEndingAt(S, n) ==
    CHOOSE k \in 1..n : (\A j \in 0..(k - 1) : (n - j) \in S) /\ (n - k) \notin S

LastOf(S) == CHOOSE n \in S : \A m \in S : m <= n

\* C19: from an absent file and over calls on non-decreasing dates, the file
\* holds the date of the last day with a call and, as the streak, the length
\* of the run of consecutive days with a call that ends on that day; before
\* any call there is no file and the streak reads 0.
C19_StreakIsRunLength ==
    pc = "streak" =>
        IF sk_called = {}
        THEN ~sk_file.exists /\ get_daily_streak(sk_file) = 0
        ELSE /\ sk_file.exists
             /\ sk_file.last_date = sk_days[LastOf(sk_called)]
             /\ sk_file.streak = RunEndingAt(sk_called, LastOf(sk_called))

\* a second call on the first of a month, the second day of a run that began
\* after a gap
C19_Witness ==
    /\ pc = "streak"
    /\ sk_callsToday = 2
    /\ sk_file.streak = 2
    /\ sk_file.last_date.d = 1
    /\ Len(sk_days) = 4
    /\ sk_called = {1, 3, 4}

\* C9: an empty or missing query gives the query term "AI"; a lookback of 0 or
\* less gives when:1d; a lookback of 1 or more gives when:{days_back}d.
C9_UrlCoercesInputs ==
    pc = "urlDone" =>
        /\ (~url_query.given \/ url_query.text = <<>>) => url_out.q = <<"A", "I">>
        /\ (url_days.given /\ url_days.n <= 0) => url_out.days = 1
        /\ (url_days.given /\ url_days.n >= 1) => url_out.days = url_days.n

====
